---- MODULE Spec2Model ----
(***************************************************************************)
(* probepilot: three eBPF probes (memory tracker, TCP flow monitor, CPU    *)
(* profiler).  Each probe is a BPF object of its own with its own maps and *)
(* its own ring buffer; a handler is a BPF program run to completion on    *)
(* the CPU where its kernel event fired.                                   *)
(*                                                                         *)
(* The BPF helpers are modelled by their kernel semantics:                 *)
(*   bpf_map_lookup_elem   a pointer to the element, or NULL               *)
(*   bpf_map_update_elem   BPF_ANY on a hash map: replaces the element of  *)
(*                         an existing key; inserts a new key unless the   *)
(*                         map holds max_entries keys (then -E2BIG, which  *)
(*                         no caller here looks at)                        *)
(*   bpf_map_delete_elem   removes the key if present                      *)
(*   bpf_ringbuf_reserve   NULL when the ring has no room; whether it has  *)
(*                         depends on the user-space consumer, so each     *)
(*                         invocation takes it as an input (room)          *)
(*   bpf_ktime_get_ns      a monotonic clock; an invocation reads the last *)
(*                         reading or one unit more                        *)
(*                                                                         *)
(* Left out of the records: timestamp, tid, stack_id and comm of the events *)
(* and of allocation_info (values read from the kernel that no handler     *)
(* reads back).  64-bit wrap-around is not modelled: every quantity stays  *)
(* far below 2^31 within the bounds.                                       *)
(***************************************************************************)
EXTENDS Integers, Sequences, FiniteSets, TLC

(* ------------------------------------------------------------------ *)
(* Bounds of the model                                                 *)
(* ------------------------------------------------------------------ *)

\* handler invocations in one behaviour
MaxSteps == 3

\* max_entries of the three aggregation tables (10240 in the source),
\* scaled down so that a table fills up
MAX_ENTRIES == 2

\* CPUs that run handlers at the same time in the interleaved specification
NCPU == 2


(* ------------------------------------------------------------------ *)
(* Program constants                                                   *)
(* ------------------------------------------------------------------ *)

ALLOC_MALLOC == 1
ALLOC_FREE == 4
ALLOC_MMAP == 5
ALLOC_MUNMAP == 6
ALLOC_BRK == 7
ALLOC_PAGE == 8
ALLOC_OOM == 255
PAGE_SIZE == 4096
MAJOR_FAULT_FLAG == 4
AF_INET == 2
AF_INET6 == 10
IPPROTO_TCP == 6
TCP_ESTABLISHED == 1
TCP_SYN_SENT == 2
TCP_SYN_RECV == 3
TCP_CLOSE == 7
EV_CONNECT == 1
EV_ACCEPT == 2
EV_SEND == 3
EV_RECV == 4
EV_CLOSE == 5
EV_RETRANSMIT == 6
TASK_RUNNING == 0
MAX_CPUS == 256

(* ------------------------------------------------------------------ *)
(* Inputs                                                              *)
(* ------------------------------------------------------------------ *)

NONE == -1

\* bpf_get_current_pid_tgid() >> 32; 0 is the context with no user process
PIDS == {0, 1, 2, 3}
\* the processes that call malloc, free, mmap and munmap
USER_PIDS == {0, 1, 2}
\* the processes whose calls only emit an event (mmap entry, brk, oom victim)
EVENT_PIDS == {0, 1}
\* the processes that take page faults and that the sampler interrupts
FAULT_PIDS == {0, 3}
\* addresses; 0 is NULL
ADDRS == {0, 1, 2}
\* the return value of mmap: an address, or a negative errno
MMAP_RETS == ADDRS \cup {-12}
\* sizes passed to malloc, mmap and munmap
SIZES == {0, 128}
\* order argument of __alloc_pages / __free_pages
ORDERS == {0, 1}
\* error_code of a user page fault
ERROR_CODES == {2, 4}
\* faulting address of a user page fault
FAULT_ADDRS == {2}
\* rss_stat.count[0] and total_vm read by the sampler
RSS_SAMPLES == {3}
VM_SAMPLES == {7}
\* sockets, each with a 4-tuple of its own
SOCKS == {1, 2, 3}
\* the sockets that change state
STATE_SOCKS == {1, 2}
FAMILIES == {AF_INET, AF_INET6}
\* oldstate and newstate of a socket-state transition; 4 is FIN_WAIT1
TCP_STATES == {TCP_ESTABLISHED, TCP_SYN_SENT, TCP_SYN_RECV, 4, TCP_CLOSE}
\* snd_nxt, snd_una and srtt of a tcp_probe event
SEQ_NUMBERS == {1000, 1100}
RTTS == {30}
\* size of a tcp_sendmsg, copied of a tcp_cleanup_rbuf
SEND_SIZES == {100}
COPIED == {-1, 0, 50}
\* the process the network handlers run in
NET_PIDS == {1}
\* bpf_get_smp_processor_id()
CPU_IDS == {0, 1}
\* the incoming task of a sched_switch
NEXT_PIDS == {0, 2}
\* the CPU the sampler and the power and irq tracepoints fire on
IRQ_CPUS == {1}
\* prev_state of a sched_switch; 1 is TASK_INTERRUPTIBLE
TASK_STATES == {TASK_RUNNING, 1}
\* state of a cpu_frequency and of a cpu_idle event
FREQUENCIES == {2400}
IDLE_STATES == {NONE, 1}

PROBES == {"memory_tracker", "tcp_flow", "cpu_profiler"}

VARIABLES
    loaded,               \* the BPF object this behaviour runs
    steps,                \* handler invocations so far
    now,                  \* bpf_ktime_get_ns()
    process_memory_map,   \* memory tracker: pid -> struct process_memory
    allocation_map,       \* memory tracker: address -> struct allocation_info
    system_memory_map,    \* memory tracker: the one struct system_memory
    user,                 \* the traced processes' allocator: calls in flight, live blocks
    flow_map,             \* tcp flow: struct flow_key -> struct flow_data
    process_map,          \* cpu profiler: pid -> struct process_stats
    cpu_map,              \* cpu profiler: per-CPU array of struct cpu_stats
    events,               \* the records the last invocation submitted to the ring buffer
    conc                  \* interleaved runs: each CPU's handler in progress, puts and takes

memVars == <<process_memory_map, allocation_map, system_memory_map, user>>
netVars == <<flow_map>>
cpuVars == <<process_map, cpu_map>>

vars == <<loaded, steps, now, events, conc, memVars, netVars, cpuVars>>

(* ------------------------------------------------------------------ *)
(* BPF helpers                                                         *)
(* ------------------------------------------------------------------ *)

EmptyMap == [k \in {} |-> 0]

Lookup(map, key) == key \in DOMAIN map

MapInsert(map, key, value) ==
    [k \in DOMAIN map \cup {key} |-> IF k = key THEN value ELSE map[k]]

\* a hash map without max_entries: every new key is accepted
MapUpdate_NoCap(map, key, value, cap) ==
    IF key \in DOMAIN map THEN [map EXCEPT ![key] = value] ELSE MapInsert(map, key, value)

\* bpf_map_update_elem(&map, &key, &value, BPF_ANY) on a hash map of cap entries
MapUpdate(map, key, value, cap) ==
    IF key \in DOMAIN map THEN [map EXCEPT ![key] = value]
    ELSE IF Cardinality(DOMAIN map) < cap THEN MapInsert(map, key, value)
    ELSE map

\* a delete that leaves the element in place
MapDelete_Noop(map, key) == map

\* bpf_map_delete_elem(&map, &key)
MapDelete(map, key) == [k \in DOMAIN map \ {key} |-> map[k]]

\* bpf_ringbuf_reserve + bpf_ringbuf_submit: out is what the invocation has
\* submitted so far
RingSubmit(out, room, event) == IF room THEN Append(out, event) ELSE out

(* ------------------------------------------------------------------ *)
(* Memory tracker                                                      *)
(* ------------------------------------------------------------------ *)

\* struct process_memory new_mem = {}
ZeroMem ==
    [total_allocated |-> 0, total_freed |-> 0, current_usage |-> 0,
     peak_usage |-> 0, allocation_count |-> 0, free_count |-> 0,
     page_faults |-> 0, major_faults |-> 0, rss_pages |-> 0, vmem_pages |-> 0]

MemoryEvent(pid, addr, size, type, old_addr) ==
    [pid |-> pid, addr |-> addr, size |-> size, type |-> type,
     old_addr |-> old_addr, flags |-> 0]

send_memory_event(room, pid, addr, size, type, old_addr) ==
    RingSubmit(<<>>, room, MemoryEvent(pid, addr, size, type, old_addr))

\* the lookup / insert-zero / re-lookup of the record of pid
GetOrCreateMem(map, pid) ==
    IF Lookup(map, pid) THEN map ELSE MapUpdate(map, pid, ZeroMem, MAX_ENTRIES)

\* the is_allocation branch without its peak_usage test
AllocUpdate_NoPeak(mem, size_delta) ==
    [mem EXCEPT !.total_allocated = @ + size_delta,
                !.allocation_count = @ + 1,
                !.current_usage = @ + size_delta]

\* the is_allocation branch of update_process_memory
AllocUpdate(mem, size_delta) ==
    LET cur == mem.current_usage + size_delta
    IN  [mem EXCEPT !.total_allocated = @ + size_delta,
                    !.allocation_count = @ + 1,
                    !.current_usage = cur,
                    !.peak_usage = IF cur > @ THEN cur ELSE @]

\* an else branch that takes the freed bytes back out of total_allocated
FreeUpdate_LowersAllocated(mem, size_delta) ==
    [mem EXCEPT !.total_freed = @ + size_delta,
                !.free_count = @ + 1,
                !.total_allocated = IF @ >= size_delta THEN @ - size_delta ELSE 0,
                !.current_usage = IF @ >= size_delta THEN @ - size_delta ELSE @]

\* the else branch of update_process_memory
FreeUpdate(mem, size_delta) ==
    [mem EXCEPT !.total_freed = @ + size_delta,
                !.free_count = @ + 1,
                !.current_usage = IF @ >= size_delta THEN @ - size_delta ELSE @]

\* an update_process_memory that skips a free larger than current_usage
update_process_memory_SkipUnchargedFree(map, pid, size_delta, is_allocation) ==
    LET m == GetOrCreateMem(map, pid)
    IN  IF ~Lookup(m, pid) THEN m
        ELSE IF is_allocation THEN [m EXCEPT ![pid] = AllocUpdate(@, size_delta)]
        ELSE IF m[pid].current_usage >= size_delta
        THEN [m EXCEPT ![pid] = FreeUpdate(@, size_delta)]
        ELSE m

update_process_memory(map, pid, size_delta, is_allocation) ==
    LET m == GetOrCreateMem(map, pid)
    IN  IF ~Lookup(m, pid) THEN m
        ELSE [m EXCEPT ![pid] = IF is_allocation THEN AllocUpdate(@, size_delta)
                                ELSE FreeUpdate(@, size_delta)]

\* every handler invocation counts against the bound of the behaviour and reads
\* the clock at ts; a handler of one BPF object leaves the maps of the other
\* two alone
Invoke(probe, ts) ==
    /\ loaded = probe
    /\ steps < MaxSteps
    /\ steps' = steps + 1
    /\ now' = ts
    /\ UNCHANGED <<loaded, conc>>
    /\ IF probe = "memory_tracker" THEN TRUE ELSE UNCHANGED memVars
    /\ IF probe = "tcp_flow" THEN TRUE ELSE UNCHANGED netVars
    /\ IF probe = "cpu_profiler" THEN TRUE ELSE UNCHANGED cpuVars

\* uprobe/malloc
trace_malloc(pid, size, room) ==
    /\ Invoke("memory_tracker", now)
    /\ user.inMalloc[pid] = NONE
    /\ user' = [user EXCEPT !.inMalloc[pid] = size]
    /\ events' = IF pid = 0 \/ size = 0 THEN <<>>
                 ELSE send_memory_event(room, pid, 0, size, ALLOC_MALLOC, 0)
    /\ UNCHANGED <<process_memory_map, allocation_map, system_memory_map>>

\* uretprobe/malloc: the call of pid returns addr (0: the allocation failed)
trace_malloc_ret(pid, addr) ==
    /\ Invoke("memory_tracker", now)
    /\ user.inMalloc[pid] # NONE
    /\ \A b \in user.live : ~(b.pid = pid /\ b.addr = addr)
    /\ user' = [user EXCEPT
                  !.inMalloc[pid] = NONE,
                  !.live = IF addr = 0 THEN @
                           ELSE @ \cup {[pid |-> pid, addr |-> addr,
                                         size |-> user.inMalloc[pid]]},
                  !.allocated[pid] = IF addr = 0 THEN @ ELSE @ + user.inMalloc[pid],
                  !.nalloc[pid] = IF addr = 0 THEN @ ELSE @ + 1]
    /\ events' = <<>>
    /\ UNCHANGED <<process_memory_map, allocation_map, system_memory_map>>

\* the live block of pid at addr, if any
LiveAt(pid, addr) == {b \in user.live : b.pid = pid /\ b.addr = addr}

\* the allocator's side of free(addr) called by pid
UserFree(pid, addr) ==
    IF LiveAt(pid, addr) = {} THEN user
    ELSE LET b == CHOOSE x \in LiveAt(pid, addr) : TRUE
         IN  [user EXCEPT !.live = @ \ {b},
                          !.freed[pid] = @ + b.size,
                          !.nfree[pid] = @ + 1]

\* uprobe/free
trace_free(pid, addr, room) ==
    /\ Invoke("memory_tracker", now)
    /\ user' = UserFree(pid, addr)
    /\ IF pid = 0 \/ addr = 0
       THEN /\ events' = <<>>
            /\ UNCHANGED <<process_memory_map, allocation_map>>
       ELSE LET info == Lookup(allocation_map, addr)
                size == IF info THEN allocation_map[addr].size ELSE 0
            IN  /\ allocation_map' =
                       IF info THEN MapDelete(allocation_map, addr) ELSE allocation_map
                /\ process_memory_map' =
                       IF info THEN update_process_memory(process_memory_map, pid, size, FALSE)
                       ELSE process_memory_map
                /\ events' = send_memory_event(room, pid, addr, size, ALLOC_FREE, 0)
    /\ UNCHANGED system_memory_map

\* tp/syscalls/sys_enter_mmap
trace_mmap_enter(pid, size, room) ==
    /\ Invoke("memory_tracker", now)
    /\ events' = IF pid = 0 \/ size = 0 THEN <<>>
                 ELSE send_memory_event(room, pid, 0, size, ALLOC_MMAP, 0)
    /\ UNCHANGED memVars

\* struct allocation_info info = {}; info.pid = pid
AllocationInfo(pid) == [size |-> 0, pid |-> pid]

\* tp/syscalls/sys_exit_mmap
trace_mmap_exit(pid, ret) ==
    /\ Invoke("memory_tracker", now)
    /\ allocation_map' =
           IF pid = 0 \/ ret < 0 THEN allocation_map
           ELSE MapUpdate(allocation_map, ret, AllocationInfo(pid), MAX_ENTRIES * 4)
    /\ events' = <<>>
    /\ UNCHANGED <<process_memory_map, system_memory_map, user>>

\* a munmap handler that charges the free to the pid stored in the entry
trace_munmap_ChargesOwner(pid, addr, size, room) ==
    /\ Invoke("memory_tracker", now)
    /\ IF pid = 0 \/ addr = 0
       THEN /\ events' = <<>>
            /\ UNCHANGED <<process_memory_map, allocation_map>>
       ELSE LET info == Lookup(allocation_map, addr)
            IN  /\ allocation_map' =
                       IF info THEN MapDelete(allocation_map, addr) ELSE allocation_map
                /\ process_memory_map' =
                       IF info THEN update_process_memory(process_memory_map,
                                                          allocation_map[addr].pid, size, FALSE)
                       ELSE process_memory_map
                /\ events' = send_memory_event(room, pid, addr, size, ALLOC_MUNMAP, 0)
    /\ UNCHANGED <<system_memory_map, user>>

\* tp/syscalls/sys_enter_munmap
trace_munmap(pid, addr, size, room) ==
    /\ Invoke("memory_tracker", now)
    /\ IF pid = 0 \/ addr = 0
       THEN /\ events' = <<>>
            /\ UNCHANGED <<process_memory_map, allocation_map>>
       ELSE LET info == Lookup(allocation_map, addr)
            IN  /\ allocation_map' =
                       IF info THEN MapDelete(allocation_map, addr) ELSE allocation_map
                /\ process_memory_map' =
                       IF info THEN update_process_memory(process_memory_map, pid, size, FALSE)
                       ELSE process_memory_map
                /\ events' = send_memory_event(room, pid, addr, size, ALLOC_MUNMAP, 0)
    /\ UNCHANGED <<system_memory_map, user>>

\* tp/syscalls/sys_enter_brk
trace_brk(pid, addr, room) ==
    /\ Invoke("memory_tracker", now)
    /\ events' = IF pid = 0 THEN <<>>
                 ELSE send_memory_event(room, pid, addr, 0, ALLOC_BRK, 0)
    /\ UNCHANGED memVars

\* error_code & 0x4
MajorFault(error_code) == (error_code \div MAJOR_FAULT_FLAG) % 2 = 1

\* a fault update that counts every fault as a major fault
FaultUpdate_AlwaysMajor(mem, error_code) ==
    [mem EXCEPT !.page_faults = @ + 1, !.major_faults = @ + 1]

\* mem->page_faults++; if (error_code & 0x4) mem->major_faults++
FaultUpdate(mem, error_code) ==
    [mem EXCEPT !.page_faults = @ + 1,
                !.major_faults = IF MajorFault(error_code) THEN @ + 1 ELSE @]

\* tp/exceptions/page_fault_user
trace_page_fault(pid, address, error_code, room) ==
    /\ Invoke("memory_tracker", now)
    /\ IF pid = 0
       THEN /\ events' = <<>>
            /\ UNCHANGED process_memory_map
       ELSE LET m == GetOrCreateMem(process_memory_map, pid)
            IN  IF ~Lookup(m, pid)
                THEN /\ process_memory_map' = m
                     /\ events' = <<>>
                ELSE /\ process_memory_map' = [m EXCEPT ![pid] = FaultUpdate(@, error_code)]
                     /\ events' = send_memory_event(room, pid, address,
                                                    PAGE_SIZE, ALLOC_PAGE, 0)
    /\ UNCHANGED <<allocation_map, system_memory_map, user>>

\* tp/vmscan/mm_vmscan_wakeup_kswapd
trace_memory_pressure ==
    /\ Invoke("memory_tracker", now)
    /\ system_memory_map' = [system_memory_map EXCEPT !.memory_pressure = @ + 1]
    /\ events' = <<>>
    /\ UNCHANGED <<process_memory_map, allocation_map, user>>

\* tp/oom/mark_victim
trace_oom_victim(pid, room) ==
    /\ Invoke("memory_tracker", now)
    /\ events' = send_memory_event(room, pid, 0, 0, ALLOC_OOM, 0)
    /\ UNCHANGED memVars

\* perf_event sampler of the memory tracker; mm is FALSE for a task without mm
sample_memory_stats(pid, mm, rss_pages, vmem_pages) ==
    /\ Invoke("memory_tracker", now)
    /\ process_memory_map' =
           IF pid = 0 \/ ~mm THEN process_memory_map
           ELSE LET m == GetOrCreateMem(process_memory_map, pid)
                IN  IF ~Lookup(m, pid) THEN m
                    ELSE [m EXCEPT ![pid].rss_pages = rss_pages,
                                   ![pid].vmem_pages = vmem_pages]
    /\ events' = <<>>
    /\ UNCHANGED <<allocation_map, system_memory_map, user>>

\* (1ULL << order) * 4096
PagesToBytes(order) == (2 ^ order) * PAGE_SIZE

\* kprobe/__alloc_pages
alloc_pages(pid, order, room) ==
    /\ Invoke("memory_tracker", now)
    /\ IF pid = 0
       THEN /\ events' = <<>>
            /\ UNCHANGED process_memory_map
       ELSE /\ process_memory_map' =
                   update_process_memory(process_memory_map, pid, PagesToBytes(order), TRUE)
            /\ events' = send_memory_event(room, pid, 0, PagesToBytes(order), ALLOC_PAGE, 0)
    /\ UNCHANGED <<allocation_map, system_memory_map, user>>

\* kprobe/__free_pages
free_pages(pid, order) ==
    /\ Invoke("memory_tracker", now)
    /\ process_memory_map' =
           IF pid = 0 THEN process_memory_map
           ELSE update_process_memory(process_memory_map, pid, PagesToBytes(order), FALSE)
    /\ events' = <<>>
    /\ UNCHANGED <<allocation_map, system_memory_map, user>>

MemoryNext ==
    \/ \E pid \in USER_PIDS, size \in SIZES, room \in BOOLEAN : trace_malloc(pid, size, room)
    \/ \E pid \in USER_PIDS, addr \in ADDRS : trace_malloc_ret(pid, addr)
    \/ \E pid \in USER_PIDS, addr \in ADDRS, room \in BOOLEAN : trace_free(pid, addr, room)
    \/ \E pid \in EVENT_PIDS, size \in SIZES, room \in BOOLEAN : trace_mmap_enter(pid, size, room)
    \/ \E pid \in USER_PIDS, ret \in MMAP_RETS : trace_mmap_exit(pid, ret)
    \/ \E pid \in USER_PIDS, addr \in ADDRS, size \in SIZES, room \in BOOLEAN :
          trace_munmap(pid, addr, size, room)
    \/ \E pid \in EVENT_PIDS, addr \in FAULT_ADDRS, room \in BOOLEAN : trace_brk(pid, addr, room)
    \/ \E pid \in FAULT_PIDS, addr \in FAULT_ADDRS, ec \in ERROR_CODES, room \in BOOLEAN :
          trace_page_fault(pid, addr, ec, room)
    \/ trace_memory_pressure
    \/ \E pid \in EVENT_PIDS, room \in BOOLEAN : trace_oom_victim(pid, room)
    \/ \E pid \in FAULT_PIDS, mm \in BOOLEAN, rss \in RSS_SAMPLES, vm \in VM_SAMPLES :
          sample_memory_stats(pid, mm, rss, vm)
    \/ \E pid \in PIDS, order \in ORDERS, room \in BOOLEAN : alloc_pages(pid, order, room)
    \/ \E pid \in PIDS, order \in ORDERS : free_pages(pid, order)

InitUser ==
    [inMalloc |-> [p \in PIDS |-> NONE], live |-> {},
     allocated |-> [p \in PIDS |-> 0], freed |-> [p \in PIDS |-> 0],
     nalloc |-> [p \in PIDS |-> 0], nfree |-> [p \in PIDS |-> 0]]

(* ------------------------------------------------------------------ *)
(* TCP flow monitor                                                    *)
(* ------------------------------------------------------------------ *)

\* the fields of struct inet_sock read from sk; the ports are big-endian
Inet(sk) ==
    [inet_saddr |-> 10, inet_daddr |-> 20, inet_sport |-> 256 * sk, inet_dport |-> 20480]

\* bpf_ntohs on a little-endian machine: the two bytes swapped
bpf_ntohs(x) == (x % 256) * 256 + (x \div 256)

make_flow_key(saddr, daddr, sport, dport) ==
    [saddr |-> saddr, daddr |-> daddr, sport |-> sport, dport |-> dport,
     protocol |-> IPPROTO_TCP]

\* the key tcp_sendmsg and tcp_cleanup_rbuf build for sk
FlowKeyOf(sk) ==
    make_flow_key(Inet(sk).inet_saddr, Inet(sk).inet_daddr,
                  bpf_ntohs(Inet(sk).inet_sport), bpf_ntohs(Inet(sk).inet_dport))

\* struct flow_data new_flow = {}
ZeroFlow ==
    [bytes_tx |-> 0, bytes_rx |-> 0, packets_tx |-> 0, packets_rx |-> 0,
     first_seen |-> 0, last_seen |-> 0, rtt_samples |-> 0, rtt_total |-> 0,
     state |-> 0]

TcpEvent(event_type, sk, bytes, rtt, pid) ==
    [pid |-> pid, event_type |-> event_type, bytes |-> bytes,
     rtt |-> rtt, saddr |-> Inet(sk).inet_saddr, daddr |-> Inet(sk).inet_daddr,
     sport |-> bpf_ntohs(Inet(sk).inet_sport), dport |-> bpf_ntohs(Inet(sk).inet_dport)]

send_event(out, room, event_type, sk, bytes, rtt, pid) ==
    RingSubmit(out, room, TcpEvent(event_type, sk, bytes, rtt, pid))

\* the events of a transition when a close is reported only out of ESTABLISHED
StateChangeEvents_CloseFromEstablished(room, sk, oldstate, newstate, pid) ==
    LET r1 == IF oldstate = TCP_SYN_SENT /\ newstate = TCP_ESTABLISHED
              THEN send_event(<<>>, room, EV_CONNECT, sk, 0, 0, pid) ELSE <<>>
        r2 == IF oldstate = TCP_SYN_RECV /\ newstate = TCP_ESTABLISHED
              THEN send_event(r1, room, EV_ACCEPT, sk, 0, 0, pid) ELSE r1
    IN  IF oldstate = TCP_ESTABLISHED /\ newstate = TCP_CLOSE
        THEN send_event(r2, room, EV_CLOSE, sk, 0, 0, pid) ELSE r2

\* the events of one socket-state transition, in program order
StateChangeEvents(room, sk, oldstate, newstate, pid) ==
    LET r1 == IF oldstate = TCP_SYN_SENT /\ newstate = TCP_ESTABLISHED
              THEN send_event(<<>>, room, EV_CONNECT, sk, 0, 0, pid) ELSE <<>>
        r2 == IF oldstate = TCP_SYN_RECV /\ newstate = TCP_ESTABLISHED
              THEN send_event(r1, room, EV_ACCEPT, sk, 0, 0, pid) ELSE r1
    IN  IF newstate = TCP_CLOSE
        THEN send_event(r2, room, EV_CLOSE, sk, 0, 0, pid) ELSE r2

\* tp/sock/inet_sock_set_state
trace_tcp_state_change(sk, family, oldstate, newstate, pid, room) ==
    /\ Invoke("tcp_flow", now)
    /\ events' = IF family # AF_INET THEN <<>>
                 ELSE StateChangeEvents(room, sk, oldstate, newstate, pid)
    /\ UNCHANGED flow_map

\* tp/tcp/tcp_probe; snd_nxt - snd_una is taken with snd_nxt >= snd_una
trace_tcp_probe(sk, snd_nxt, snd_una, srtt, pid, room) ==
    /\ Invoke("tcp_flow", now)
    /\ events' = send_event(<<>>, room, EV_SEND, sk, snd_nxt - snd_una, srtt, pid)
    /\ UNCHANGED flow_map

\* a retransmit handler that counts the segment as a sent packet of its flow
trace_tcp_retransmit_CountsPacket(sk, pid, room) ==
    /\ Invoke("tcp_flow", now)
    /\ events' = send_event(<<>>, room, EV_RETRANSMIT, sk, 0, 0, pid)
    /\ flow_map' = [k \in DOMAIN flow_map |->
                       IF k = FlowKeyOf(sk) THEN [flow_map[k] EXCEPT !.packets_tx = @ + 1]
                       ELSE flow_map[k]]

\* tp/tcp/tcp_retransmit_skb
trace_tcp_retransmit(sk, pid, room) ==
    /\ Invoke("tcp_flow", now)
    /\ events' = send_event(<<>>, room, EV_RETRANSMIT, sk, 0, 0, pid)
    /\ UNCHANGED flow_map

\* the record tcp_sendmsg inserts on a lookup miss
NewFlowTx(size, ts) ==
    [ZeroFlow EXCEPT !.first_seen = ts, !.last_seen = ts,
                     !.bytes_tx = size, !.packets_tx = 1]

\* the update of tcp_sendmsg on a lookup hit
FlowTxUpdate(flow, size, ts) ==
    [flow EXCEPT !.bytes_tx = @ + size, !.packets_tx = @ + 1, !.last_seen = ts]

\* the flow table after tcp_sendmsg of size bytes on the flow of key
SendUpdate(map, key, size, ts) ==
    IF ~Lookup(map, key) THEN MapUpdate(map, key, NewFlowTx(size, ts), MAX_ENTRIES)
    ELSE [map EXCEPT ![key] = FlowTxUpdate(@, size, ts)]

\* a tcp_sendmsg that gives up before the flow update when the ring has no room
tcp_sendmsg_SkipOnFull(sk, size, pid, ts, room) ==
    /\ Invoke("tcp_flow", ts)
    /\ flow_map' = IF room THEN SendUpdate(flow_map, FlowKeyOf(sk), size, ts) ELSE flow_map
    /\ events' = send_event(<<>>, room, EV_SEND, sk, size, 0, pid)

\* kprobe/tcp_sendmsg
tcp_sendmsg(sk, size, pid, ts, room) ==
    /\ Invoke("tcp_flow", ts)
    /\ flow_map' = SendUpdate(flow_map, FlowKeyOf(sk), size, ts)
    /\ events' = send_event(<<>>, room, EV_SEND, sk, size, 0, pid)

\* the record tcp_cleanup_rbuf inserts on a lookup miss
NewFlowRx(copied, ts) ==
    [ZeroFlow EXCEPT !.first_seen = ts, !.last_seen = ts,
                     !.bytes_rx = copied, !.packets_rx = 1]

\* a receive update that also counts the segment as a sent packet
FlowRxUpdate_CountsTx(flow, copied, ts) ==
    [flow EXCEPT !.bytes_rx = @ + copied, !.packets_rx = @ + 1,
                 !.packets_tx = @ + 1, !.last_seen = ts]

\* the update of tcp_cleanup_rbuf on a lookup hit
FlowRxUpdate(flow, copied, ts) ==
    [flow EXCEPT !.bytes_rx = @ + copied, !.packets_rx = @ + 1, !.last_seen = ts]

\* the flow table after tcp_cleanup_rbuf of copied bytes on the flow of key
RecvUpdate(map, key, copied, ts) ==
    IF ~Lookup(map, key) THEN MapUpdate(map, key, NewFlowRx(copied, ts), MAX_ENTRIES)
    ELSE [map EXCEPT ![key] = FlowRxUpdate(@, copied, ts)]

\* kprobe/tcp_cleanup_rbuf
tcp_cleanup_rbuf(sk, copied, pid, ts, room) ==
    /\ Invoke("tcp_flow", ts)
    /\ flow_map' = IF copied <= 0 THEN flow_map
                   ELSE RecvUpdate(flow_map, FlowKeyOf(sk), copied, ts)
    /\ events' = IF copied <= 0 THEN <<>>
                 ELSE send_event(<<>>, room, EV_RECV, sk, copied, 0, pid)

\* bpf_ktime_get_ns(): the last reading, or one unit later
Clock == {now, now + 1}

TcpNext ==
    \/ \E sk \in STATE_SOCKS, family \in FAMILIES, old \in TCP_STATES, new \in TCP_STATES,
          pid \in NET_PIDS, room \in BOOLEAN :
          trace_tcp_state_change(sk, family, old, new, pid, room)
    \/ \E sk \in SOCKS, nxt \in SEQ_NUMBERS, una \in SEQ_NUMBERS, srtt \in RTTS,
          pid \in NET_PIDS, room \in BOOLEAN :
          nxt >= una /\ trace_tcp_probe(sk, nxt, una, srtt, pid, room)
    \/ \E sk \in SOCKS, pid \in NET_PIDS, room \in BOOLEAN : trace_tcp_retransmit(sk, pid, room)
    \/ \E sk \in SOCKS, size \in SEND_SIZES, pid \in NET_PIDS, ts \in Clock, room \in BOOLEAN :
          tcp_sendmsg(sk, size, pid, ts, room)
    \/ \E sk \in SOCKS, copied \in COPIED, pid \in NET_PIDS, ts \in Clock, room \in BOOLEAN :
          tcp_cleanup_rbuf(sk, copied, pid, ts, room)

(* ------------------------------------------------------------------ *)
(* CPU profiler                                                        *)
(* ------------------------------------------------------------------ *)

\* struct process_stats new_stats = {}
ZeroStats ==
    [total_runtime |-> 0, schedule_count |-> 0, voluntary_switches |-> 0,
     involuntary_switches |-> 0, last_seen |-> 0, min_cpu |-> 0, max_cpu |-> 0]

\* a zeroed struct cpu_stats of the per-CPU array
ZeroCpu ==
    [idle_time |-> 0, user_time |-> 0, system_time |-> 0, irq_time |-> 0,
     softirq_time |-> 0, context_switches |-> 0, frequency |-> 0, load_avg |-> 0]

CpuSample(pid, cpu, runtime) == [pid |-> pid, cpu |-> cpu, runtime |-> runtime]

send_cpu_sample(room, pid, cpu, runtime) ==
    RingSubmit(<<>>, room, CpuSample(pid, cpu, runtime))

\* stats->last_seen = ts; the min_cpu / max_cpu update
SeenOn(stats, cpu, ts) ==
    [stats EXCEPT !.last_seen = ts,
                  !.min_cpu = IF cpu < @ THEN cpu ELSE @,
                  !.max_cpu = IF cpu > @ THEN cpu ELSE @]

\* a new record seen at ts on cpu
NewStats(cpu, ts) ==
    [ZeroStats EXCEPT !.last_seen = ts, !.min_cpu = cpu, !.max_cpu = cpu]

\* trace_sched_switch, the outgoing task
SwitchOut(map, prev_pid, prev_state, cpu, ts) ==
    IF ~(prev_pid > 0) THEN map
    ELSE IF ~Lookup(map, prev_pid)
         THEN MapUpdate(map, prev_pid, NewStats(cpu, ts), MAX_ENTRIES)
         ELSE [map EXCEPT ![prev_pid] =
                  LET seen == SeenOn(@, cpu, ts)
                  IN  IF prev_state = TASK_RUNNING
                      THEN [seen EXCEPT !.involuntary_switches = @ + 1]
                      ELSE [seen EXCEPT !.voluntary_switches = @ + 1]]

\* trace_sched_switch, the incoming task
SwitchIn(map, next_pid, cpu, ts) ==
    IF ~(next_pid > 0) THEN map
    ELSE IF ~Lookup(map, next_pid)
         THEN MapUpdate(map, next_pid,
                        [NewStats(cpu, ts) EXCEPT !.schedule_count = 1], MAX_ENTRIES)
         ELSE [map EXCEPT ![next_pid] =
                  [SeenOn(@, cpu, ts) EXCEPT !.schedule_count = @ + 1]]

\* bpf_map_lookup_elem(&cpu_map, &key) on cpu finds this CPU's copy of the slot
CpuSlot(key) == key < MAX_CPUS

\* tp/sched/sched_switch on cpu
trace_sched_switch(prev_pid, next_pid, prev_state, cpu, ts) ==
    /\ Invoke("cpu_profiler", ts)
    /\ process_map' = SwitchIn(SwitchOut(process_map, prev_pid, prev_state, cpu, ts),
                               next_pid, cpu, ts)
    /\ cpu_map' = IF CpuSlot(cpu)
                  THEN [cpu_map EXCEPT ![cpu][cpu].context_switches = @ + 1]
                  ELSE cpu_map
    /\ events' = <<>>

\* tp/sched/sched_wakeup, running in task pid
trace_sched_wakeup(pid, target_cpu, room) ==
    /\ Invoke("cpu_profiler", now)
    /\ events' = send_cpu_sample(room, pid, target_cpu, 0)
    /\ UNCHANGED <<process_map, cpu_map>>

\* the process table after a sample of pid on cpu
PerfUpdate(map, pid, cpu, ts) ==
    IF ~Lookup(map, pid)
    THEN MapUpdate(map, pid, [NewStats(cpu, ts) EXCEPT !.total_runtime = 1], MAX_ENTRIES)
    ELSE [map EXCEPT ![pid] = [SeenOn(@, cpu, ts) EXCEPT !.total_runtime = @ + 1]]

\* a sampler of the CPU profiler without the test of pid against 0
sample_cpu_perf_NoPidCheck(pid, cpu, ts, room) ==
    /\ Invoke("cpu_profiler", ts)
    /\ process_map' = PerfUpdate(process_map, pid, cpu, ts)
    /\ events' = send_cpu_sample(room, pid, cpu,
                                 IF Lookup(process_map, pid)
                                 THEN process_map[pid].total_runtime + 1 ELSE 1)
    /\ UNCHANGED cpu_map

\* the return value of either sampler: every exit is a return 0
sampler_return(pid, mm) == IF pid = 0 THEN 0 ELSE IF ~mm THEN 0 ELSE 0

\* perf_event sampler of the CPU profiler
sample_cpu_perf(pid, cpu, ts, room) ==
    /\ Invoke("cpu_profiler", ts)
    /\ process_map' = IF pid = 0 THEN process_map ELSE PerfUpdate(process_map, pid, cpu, ts)
    /\ events' = IF pid = 0 THEN <<>>
                 ELSE send_cpu_sample(room, pid, cpu,
                                      IF Lookup(process_map, pid)
                                      THEN process_map[pid].total_runtime + 1 ELSE 1)
    /\ UNCHANGED cpu_map

\* tp/power/cpu_frequency, running on cpu, for the CPU cpu_id
trace_cpu_frequency(cpu, cpu_id, frequency) ==
    /\ Invoke("cpu_profiler", now)
    /\ cpu_map' = IF CpuSlot(cpu_id)
                  THEN [cpu_map EXCEPT ![cpu][cpu_id].frequency = frequency]
                  ELSE cpu_map
    /\ events' = <<>>
    /\ UNCHANGED process_map

\* tp/power/cpu_idle on cpu; state is (__u32)-1 when the CPU leaves idle
trace_cpu_idle(cpu, state) ==
    /\ Invoke("cpu_profiler", now)
    /\ cpu_map' = IF CpuSlot(cpu) /\ state # NONE
                  THEN [cpu_map EXCEPT ![cpu][cpu].idle_time = @ + 1]
                  ELSE cpu_map
    /\ events' = <<>>
    /\ UNCHANGED process_map

\* tp/irq/irq_handler_entry on cpu
trace_irq_entry(cpu) ==
    /\ Invoke("cpu_profiler", now)
    /\ cpu_map' = IF CpuSlot(cpu)
                  THEN [cpu_map EXCEPT ![cpu][cpu].irq_time = @ + 1]
                  ELSE cpu_map
    /\ events' = <<>>
    /\ UNCHANGED process_map

\* tp/irq/softirq_entry on cpu
trace_softirq_entry(cpu) ==
    /\ Invoke("cpu_profiler", now)
    /\ cpu_map' = IF CpuSlot(cpu)
                  THEN [cpu_map EXCEPT ![cpu][cpu].softirq_time = @ + 1]
                  ELSE cpu_map
    /\ events' = <<>>
    /\ UNCHANGED process_map

\* kprobe/finish_task_switch on cpu, prev_pid the task switched out
finish_task_switch(prev_pid, cpu, ts, room) ==
    /\ Invoke("cpu_profiler", ts)
    /\ IF prev_pid > 0 /\ Lookup(process_map, prev_pid)
       THEN LET runtime == ts - process_map[prev_pid].last_seen
            IN  /\ process_map' = [process_map EXCEPT ![prev_pid].total_runtime = @ + runtime]
                /\ events' = send_cpu_sample(room, prev_pid, cpu, runtime)
       ELSE /\ events' = <<>>
            /\ UNCHANGED process_map
    /\ UNCHANGED cpu_map

CpuNext ==
    \/ \E prev \in PIDS, next \in NEXT_PIDS, st \in TASK_STATES, cpu \in CPU_IDS, ts \in Clock :
          trace_sched_switch(prev, next, st, cpu, ts)
    \/ \E pid \in EVENT_PIDS, cpu \in IRQ_CPUS, room \in BOOLEAN :
          trace_sched_wakeup(pid, cpu, room)
    \/ \E pid \in EVENT_PIDS, cpu \in IRQ_CPUS, ts \in Clock, room \in BOOLEAN :
          sample_cpu_perf(pid, cpu, ts, room)
    \/ \E cpu \in IRQ_CPUS, id \in IRQ_CPUS, f \in FREQUENCIES : trace_cpu_frequency(cpu, id, f)
    \/ \E cpu \in IRQ_CPUS, st \in IDLE_STATES : trace_cpu_idle(cpu, st)
    \/ \E cpu \in IRQ_CPUS : trace_irq_entry(cpu)
    \/ \E cpu \in IRQ_CPUS : trace_softirq_entry(cpu)
    \/ \E prev \in EVENT_PIDS, cpu \in IRQ_CPUS, ts \in Clock, room \in BOOLEAN :
          finish_task_switch(prev, cpu, ts, room)

(* ------------------------------------------------------------------ *)
(* Memory tracker, handlers interleaved across CPUs                    *)
(*                                                                     *)
(* Each map helper call is atomic; a handler is the sequence of its    *)
(* helper calls, and the handlers of different CPUs interleave between *)
(* them.  The field updates through the pointer are plain loads and    *)
(* stores (mem->f += d): the loads are one step, the stores a later    *)
(* one, and other CPUs may run between them.  A hash map is            *)
(* preallocated: the element an                                        *)
(* update of an existing key replaces goes back to the free list, and  *)
(* a later insert of any key may reuse it, so a write through a        *)
(* pointer to a replaced element is either lost or lands on the record *)
(* that reuses the element.                                            *)
(* ------------------------------------------------------------------ *)

CPUS == 1 .. NCPU

\* the inputs of the interleaved handlers
CONC_PIDS == {1, 2}
CONC_ADDRS == {1}
CONC_ORDERS == {0}
CONC_SIZES == {128}

\* a CPU that runs no handler
IdleCpu ==
    [pc |-> "idle", op |-> "none", pid |-> 0, addr |-> 0, size |-> 0,
     stale |-> FALSE, reuse |-> {}, seen |-> ZeroMem]

InitConc ==
    [cpu |-> [c \in CPUS |-> IdleCpu],
     puts |-> [a \in CONC_ADDRS |-> 0],
     taken |-> [a \in CONC_ADDRS |-> 0],
     allocs |-> [p \in CONC_PIDS |-> 0],
     alloc_bytes |-> [p \in CONC_PIDS |-> 0],
     rezeroed |-> FALSE]

\* the handler of CPU c moves to pc
Goto(c, pc) == [conc EXCEPT !.cpu[c].pc = pc]

\* a handler enters on an idle CPU
Enter(c, op, pc, pid, addr, size) ==
    /\ loaded = "memory_tracker"
    /\ conc.cpu[c].pc = "idle"
    /\ steps < MaxSteps
    /\ steps' = steps + 1
    /\ conc' = [conc EXCEPT !.cpu[c] = [IdleCpu EXCEPT !.pc = pc, !.op = op, !.pid = pid,
                                                     !.addr = addr, !.size = size]]
    /\ UNCHANGED <<loaded, now, events, memVars, netVars, cpuVars>>

\* kprobe/__alloc_pages enters on CPU c
enter_alloc_pages(c, pid, order) ==
    Enter(c, "alloc_pages", "lookup", pid, 0, PagesToBytes(order))

\* kprobe/__free_pages enters on CPU c
enter_free_pages(c, pid, order) ==
    Enter(c, "free_pages", "lookup", pid, 0, PagesToBytes(order))

\* uprobe/free enters on CPU c
enter_trace_free(c, pid, addr) == Enter(c, "trace_free", "info", pid, addr, 0)

\* tp/syscalls/sys_enter_munmap enters on CPU c
enter_trace_munmap(c, pid, addr, size) == Enter(c, "trace_munmap", "info", pid, addr, size)

\* tp/syscalls/sys_exit_mmap on CPU c: its one helper call
conc_mmap_exit(c, pid, ret) ==
    /\ loaded = "memory_tracker"
    /\ conc.cpu[c].pc = "idle"
    /\ steps < MaxSteps
    /\ steps' = steps + 1
    /\ allocation_map' = MapUpdate(allocation_map, ret, AllocationInfo(pid), MAX_ENTRIES * 4)
    /\ conc' = [conc EXCEPT !.puts[ret] = @ + 1]
    /\ events' = <<>>
    /\ UNCHANGED <<loaded, now, process_memory_map, system_memory_map, user, netVars, cpuVars>>

\* a step of a handler in progress that leaves these alone
ConcFrame == UNCHANGED <<loaded, steps, now, system_memory_map, user, netVars, cpuVars>>

\* info = bpf_map_lookup_elem(&allocation_map, &addr); size = info->size
conc_lookup_info(c) ==
    LET l == conc.cpu[c]
    IN  /\ l.pc = "info"
        /\ conc' = IF Lookup(allocation_map, l.addr)
                   THEN [conc EXCEPT
                           !.cpu[c].pc = "delete",
                           !.cpu[c].size = IF l.op = "trace_free"
                                           THEN allocation_map[l.addr].size ELSE @,
                           !.taken[l.addr] = @ + 1]
                   ELSE Goto(c, "emit")
        /\ UNCHANGED <<process_memory_map, allocation_map, events>>
        /\ ConcFrame

\* bpf_map_delete_elem(&allocation_map, &addr)
conc_delete_info(c) ==
    LET l == conc.cpu[c]
    IN  /\ l.pc = "delete"
        /\ allocation_map' = MapDelete(allocation_map, l.addr)
        /\ conc' = Goto(c, "lookup")
        /\ UNCHANGED <<process_memory_map, events>>
        /\ ConcFrame

\* update_process_memory: mem = bpf_map_lookup_elem(&process_memory_map, &pid)
conc_lookup(c) ==
    LET l == conc.cpu[c]
    IN  /\ l.pc = "lookup"
        /\ conc' = Goto(c, IF Lookup(process_memory_map, l.pid) THEN "update" ELSE "insert")
        /\ UNCHANGED <<process_memory_map, allocation_map, events>>
        /\ ConcFrame

\* the pointers of the other CPUs after CPU c has called bpf_map_update_elem for pid:
\* one to the element it replaced is stale, a stale one may be to the element it took
AfterInsert(c, pid, replaced, inserted) ==
    [d \in CPUS |->
        LET l == conc.cpu[d]
        IN  IF d = c THEN [l EXCEPT !.pc = "relookup"]
            ELSE IF l.pc \in {"update", "store"} /\ l.stale /\ inserted
                 THEN [l EXCEPT !.reuse = @ \cup {pid}]
            ELSE IF l.pc \in {"update", "store"} /\ l.pid = pid /\ replaced
                 THEN [l EXCEPT !.stale = TRUE]
            ELSE l]

\* update_process_memory: bpf_map_update_elem(&process_memory_map, &pid, &new_mem, BPF_ANY)
conc_insert(c) ==
    LET l == conc.cpu[c]
        after == MapUpdate(process_memory_map, l.pid, ZeroMem, MAX_ENTRIES)
    IN  /\ l.pc = "insert"
        /\ process_memory_map' = after
        /\ conc' = [conc EXCEPT !.cpu = AfterInsert(c, l.pid,
                                                    Lookup(process_memory_map, l.pid),
                                                    Lookup(after, l.pid)),
                                !.rezeroed = @ \/ Lookup(process_memory_map, l.pid)]
        /\ UNCHANGED <<allocation_map, events>>
        /\ ConcFrame

\* update_process_memory: the second bpf_map_lookup_elem, and if (!mem) return
conc_relookup(c) ==
    LET l == conc.cpu[c]
    IN  /\ l.pc = "relookup"
        /\ conc' = Goto(c, IF Lookup(process_memory_map, l.pid) THEN "update" ELSE "emit")
        /\ UNCHANGED <<process_memory_map, allocation_map, events>>
        /\ ConcFrame

\* the record the field updates of CPU c's handler turn mem into
ConcApply(l, mem) ==
    IF l.op = "alloc_pages" THEN AllocUpdate(mem, l.size) ELSE FreeUpdate(mem, l.size)

\* the record cur after the stores of CPU c's handler, computed from the values
\* seen that its loads returned: a field the handler does not store keeps cur's
Stored(l, cur, seen) ==
    LET n == ConcApply(l, seen)
    IN  IF l.op = "alloc_pages"
        THEN [cur EXCEPT !.total_allocated = n.total_allocated,
                         !.allocation_count = n.allocation_count,
                         !.current_usage = n.current_usage,
                         !.peak_usage = IF n.current_usage > seen.peak_usage
                                        THEN n.current_usage ELSE @]
        ELSE [cur EXCEPT !.total_freed = n.total_freed,
                         !.free_count = n.free_count,
                         !.current_usage = IF seen.current_usage >= l.size
                                           THEN n.current_usage ELSE @]

\* update_process_memory: the loads of the field updates through mem
conc_update(c) ==
    LET l == conc.cpu[c]
    IN  /\ l.pc = "update"
        /\ ~l.stale
        /\ conc' = [conc EXCEPT !.cpu[c].pc = "store",
                                !.cpu[c].seen = process_memory_map[l.pid]]
        /\ UNCHANGED <<process_memory_map, allocation_map, events>>
        /\ ConcFrame

\* update_process_memory: the stores of the field updates through mem; target is
\* the key whose record the element of mem holds by now, NONE if it is free
conc_store(c, target) ==
    LET l == conc.cpu[c]
        counted == ~l.stale /\ l.op = "alloc_pages"
    IN  /\ l.pc = "store"
        /\ IF l.stale
           THEN target = NONE \/ (target \in l.reuse /\ Lookup(process_memory_map, target))
           ELSE target = l.pid
        /\ process_memory_map' =
               IF target = NONE THEN process_memory_map
               ELSE [process_memory_map EXCEPT ![target] = Stored(l, @, l.seen)]
        /\ conc' = [conc EXCEPT
                      !.cpu[c].pc = "emit",
                      !.allocs[l.pid] = IF counted THEN @ + 1 ELSE @,
                      !.alloc_bytes[l.pid] = IF counted THEN @ + l.size ELSE @]
        /\ UNCHANGED <<allocation_map, events>>
        /\ ConcFrame

\* update_process_memory: the field updates through a pointer to a replaced element;
\* target is the key whose record now lives in the element, NONE if it is free
conc_update_stale(c, target) ==
    LET l == conc.cpu[c]
    IN  /\ l.pc = "update"
        /\ l.stale
        /\ target = NONE \/ (target \in l.reuse /\ Lookup(process_memory_map, target))
        /\ process_memory_map' =
               IF target = NONE THEN process_memory_map
               ELSE [process_memory_map EXCEPT ![target] = ConcApply(l, @)]
        /\ conc' = Goto(c, "emit")
        /\ UNCHANGED <<allocation_map, events>>
        /\ ConcFrame

\* the tail of the handler: send_memory_event if it has one, return 0
conc_emit(c, room) ==
    LET l == conc.cpu[c]
    IN  /\ l.pc = "emit"
        /\ events' =
               IF l.op = "alloc_pages"
               THEN send_memory_event(room, l.pid, 0, l.size, ALLOC_PAGE, 0)
               ELSE IF l.op = "trace_free"
               THEN send_memory_event(room, l.pid, l.addr, l.size, ALLOC_FREE, 0)
               ELSE IF l.op = "trace_munmap"
               THEN send_memory_event(room, l.pid, l.addr, l.size, ALLOC_MUNMAP, 0)
               ELSE <<>>
        /\ conc' = [conc EXCEPT !.cpu[c] = IdleCpu]
        /\ UNCHANGED <<process_memory_map, allocation_map>>
        /\ ConcFrame

ConcNext ==
    \/ \E c \in CPUS, pid \in CONC_PIDS, order \in CONC_ORDERS : enter_alloc_pages(c, pid, order)
    \/ \E c \in CPUS, pid \in CONC_PIDS, order \in CONC_ORDERS : enter_free_pages(c, pid, order)
    \/ \E c \in CPUS, pid \in CONC_PIDS, addr \in CONC_ADDRS : enter_trace_free(c, pid, addr)
    \/ \E c \in CPUS, pid \in CONC_PIDS, addr \in CONC_ADDRS, size \in CONC_SIZES :
          enter_trace_munmap(c, pid, addr, size)
    \/ \E c \in CPUS, pid \in CONC_PIDS, ret \in CONC_ADDRS : conc_mmap_exit(c, pid, ret)
    \/ \E c \in CPUS : conc_lookup_info(c)
    \/ \E c \in CPUS : conc_delete_info(c)
    \/ \E c \in CPUS : conc_lookup(c)
    \/ \E c \in CPUS : conc_insert(c)
    \/ \E c \in CPUS : conc_relookup(c)
    \/ \E c \in CPUS : conc_update(c)
    \/ \E c \in CPUS, target \in CONC_PIDS \cup {NONE} : conc_store(c, target)
    \/ \E c \in CPUS, target \in CONC_PIDS \cup {NONE} : conc_update_stale(c, target)
    \/ \E c \in CPUS, room \in BOOLEAN : conc_emit(c, room)

(* ------------------------------------------------------------------ *)
(* The system                                                          *)
(* ------------------------------------------------------------------ *)

Init ==
    /\ loaded \in PROBES
    /\ steps = 0
    /\ now = 0
    /\ process_memory_map = EmptyMap
    /\ allocation_map = EmptyMap
    /\ system_memory_map = [memory_pressure |-> 0]
    /\ user = InitUser
    /\ flow_map = EmptyMap
    /\ process_map = EmptyMap
    /\ cpu_map = [c \in CPU_IDS |-> [k \in CPU_IDS |-> ZeroCpu]]
    /\ events = <<>>
    /\ conc = InitConc

Next == MemoryNext \/ TcpNext \/ CpuNext

Spec == Init /\ [][Next]_vars

\* the handlers of the memory tracker interleaved across NCPU CPUs
ConcInit == Init /\ loaded = "memory_tracker"

SpecConc == ConcInit /\ [][ConcNext]_vars

(* ------------------------------------------------------------------ *)
(* malloc / free pairs only: every free targets a live block           *)
(* ------------------------------------------------------------------ *)

\* the processes and sizes of the malloc / free runs
MALLOC_PIDS == {1, 2}
MALLOC_SIZES == {64, 128}

\* free(addr) of a block that an earlier malloc returned and that is still live
MatchedFree(pid, addr, room) ==
    /\ LiveAt(pid, addr) # {}
    /\ trace_free(pid, addr, room)

MallocNext ==
    \/ \E pid \in MALLOC_PIDS, size \in MALLOC_SIZES, room \in BOOLEAN :
          trace_malloc(pid, size, room)
    \/ \E pid \in MALLOC_PIDS, addr \in ADDRS : trace_malloc_ret(pid, addr)
    \/ \E pid \in MALLOC_PIDS, addr \in ADDRS, room \in BOOLEAN : MatchedFree(pid, addr, room)

MallocInit == Init /\ loaded = "memory_tracker"

SpecMalloc == MallocInit /\ [][MallocNext]_vars

(* ------------------------------------------------------------------ *)
(* Properties                                                          *)
(* ------------------------------------------------------------------ *)

Max(a, b) == IF a > b THEN a ELSE b

\* current_usage and free_count of pid in a process table; 0 without a record
UsageOf(map, pid) == IF Lookup(map, pid) THEN map[pid].current_usage ELSE 0
FreeCountOf(map, pid) == IF Lookup(map, pid) THEN map[pid].free_count ELSE 0

\* the record of pid can be looked up or created
Creatable(map, pid) == Lookup(map, pid) \/ Cardinality(DOMAIN map) < MAX_ENTRIES

\* C1: whenever a process has no malloc in flight, after any sequence of its
\* completed mallocs and matched frees, its current_usage is the sum of the
\* sizes allocated minus the sum of the sizes freed, clamped at 0
C1_UsageIsAllocatedMinusFreed ==
    \A p \in MALLOC_PIDS :
        user.inMalloc[p] = NONE =>
            UsageOf(process_memory_map, p) = Max(0, user.allocated[p] - user.freed[p])

\* the three steps of Scenario A have run in process p and nothing else has
ScenarioA(p) ==
    /\ steps = 3
    /\ user.nalloc[p] = 1 /\ user.allocated[p] = 128
    /\ user.nfree[p] = 1 /\ user.freed[p] = 128

\* C2: from the empty state, malloc(128) returning a != 0 and then free(a) in the
\* same process leave its record with allocation_count = 1, free_count = 1,
\* total_allocated = 128, total_freed = 128 and current_usage = 0
C2_ScenarioA ==
    \A p \in MALLOC_PIDS :
        ScenarioA(p) =>
            /\ Lookup(process_memory_map, p)
            /\ process_memory_map[p].allocation_count = 1
            /\ process_memory_map[p].free_count = 1
            /\ process_memory_map[p].total_allocated = 128
            /\ process_memory_map[p].total_freed = 128
            /\ process_memory_map[p].current_usage = 0

\* C3: in every state reached by handlers run one after the other, every record
\* has peak_usage >= current_usage, and no step removes a record or lowers its
\* peak_usage
C3_PeakBoundsUsage ==
    /\ [](\A p \in DOMAIN process_memory_map :
             process_memory_map[p].peak_usage >= process_memory_map[p].current_usage)
    /\ [][\A p \in DOMAIN process_memory_map :
             /\ p \in DOMAIN process_memory_map'
             /\ process_memory_map'[p].peak_usage >= process_memory_map[p].peak_usage]_vars

\* a record whose usage has come down from its peak and is still positive
C3_Witness ==
    \E p \in DOMAIN process_memory_map :
        /\ process_memory_map[p].current_usage > 0
        /\ process_memory_map[p].peak_usage > process_memory_map[p].current_usage

\* C4: once a record holds an applied update, no step of any CPU's get-or-create
\* puts a zero record in its place or removes it
C4_NoRezero ==
    [][\A p \in DOMAIN process_memory_map :
          process_memory_map[p] # ZeroMem =>
              /\ p \in DOMAIN process_memory_map'
              /\ process_memory_map'[p] # ZeroMem]_vars

\* a closing-phase handler (free or munmap) runs for addr in process pid
ClosingStep(pid, addr) ==
    \/ \E room \in BOOLEAN : trace_free(pid, addr, room)
    \/ \E size \in SIZES, room \in BOOLEAN : trace_munmap(pid, addr, size, room)

\* the put for addr
PutStep(addr) == \E pid \in PIDS : trace_mmap_exit(pid, addr)

\* what a closing handler for addr in process pid leaves behind: addr has no
\* entry; if there was one, the update is applied; if there was none, none is
Taken(pid, addr) ==
    /\ ~Lookup(allocation_map', addr)
    /\ Lookup(allocation_map, addr) /\ Creatable(process_memory_map, pid) =>
           FreeCountOf(process_memory_map', pid) = FreeCountOf(process_memory_map, pid) + 1
    /\ ~Lookup(allocation_map, addr) => process_memory_map' = process_memory_map

\* every closing handler step for addr is a take (stated by contraposition)
TakeOnce(pid, addr) == ~Taken(pid, addr) => ~ClosingStep(pid, addr)

\* an entry appears only by the put for its address
OnlyPutAdds ==
    \A a \in DOMAIN allocation_map' : ~Lookup(allocation_map, a) => PutStep(a)

\* C5 as stated, for every closing handler call: the first closing handler after
\* the put for a finds and removes the entry, and every further one before a new
\* put finds none and applies no update
C5_TakeOnce_AnyCall ==
    [][/\ \A pid \in PIDS, addr \in ADDRS : TakeOnce(pid, addr)
       /\ OnlyPutAdds]_vars

\* C5 for closing handlers called with pid != 0 and a != 0: the first one after
\* the put for a finds and removes the entry, and every further one before a new
\* put finds none and applies no update
C5_TakeOnce ==
    [][/\ \A pid \in PIDS \ {0}, addr \in ADDRS \ {0} : TakeOnce(pid, addr)
       /\ OnlyPutAdds]_vars

\* a munmap has taken an entry and counted 128 bytes freed, and the free that ran
\* after it, as the third step, found no entry: size 0, nothing counted
C5_Witness ==
    \E p \in PIDS \ {0}, a \in ADDRS \ {0} :
        /\ steps = 3
        /\ events = <<MemoryEvent(p, a, 0, ALLOC_FREE, 0)>>
        /\ ~Lookup(allocation_map, a)
        /\ Lookup(process_memory_map, p)
        /\ process_memory_map[p].free_count = 1
        /\ process_memory_map[p].total_freed = 128

\* C6: of the closing handlers that run on different CPUs after a single put for
\* an address, at most one observes the entry as present
C6_AtMostOneTake ==
    \A a \in CONC_ADDRS : conc.puts[a] = 1 => conc.taken[a] <= 1

\* C7: a free(addr) with pid != 0 and addr != 0 and no entry for addr emits a free
\* event of size 0, adds one to the caller's free_count and leaves current_usage
\* unchanged
C7_UnmatchedFree ==
    [][\A pid \in PIDS \ {0}, addr \in ADDRS \ {0} :
          trace_free(pid, addr, TRUE) /\ ~Lookup(allocation_map, addr)
              /\ Creatable(process_memory_map, pid) =>
              /\ events' = <<MemoryEvent(pid, addr, 0, ALLOC_FREE, 0)>>
              /\ FreeCountOf(process_memory_map', pid) =
                     FreeCountOf(process_memory_map, pid) + 1
              /\ UsageOf(process_memory_map', pid) = UsageOf(process_memory_map, pid)]_vars

\* C8: every deallocation update of a record (free_count goes up by one,
\* total_freed by the size) leaves current_usage = max(0, current_usage - size)
C8_ClampAtZero ==
    [][\A p \in DOMAIN process_memory_map :
          /\ p \in DOMAIN process_memory_map'
          /\ process_memory_map'[p].free_count = process_memory_map[p].free_count + 1
          => process_memory_map'[p].current_usage =
                 Max(0, process_memory_map[p].current_usage
                          - (process_memory_map'[p].total_freed
                               - process_memory_map[p].total_freed))]_vars

\* a table that holds max_entries keys, none of them key
FullWithout(map, key) == Cardinality(DOMAIN map) = MAX_ENTRIES /\ ~Lookup(map, key)

\* the number of keys of each aggregation table is within its capacity
WithinCapacity ==
    /\ Cardinality(DOMAIN process_memory_map) <= MAX_ENTRIES
    /\ Cardinality(DOMAIN flow_map) <= MAX_ENTRIES
    /\ Cardinality(DOMAIN process_map) <= MAX_ENTRIES

\* a handler of the memory tracker that keeps the record of pid runs for pid
MemHandlerFor(pid) ==
    \/ \E order \in ORDERS, room \in BOOLEAN : alloc_pages(pid, order, room)
    \/ \E order \in ORDERS : free_pages(pid, order)
    \/ \E addr \in FAULT_ADDRS, ec \in ERROR_CODES, room \in BOOLEAN :
          trace_page_fault(pid, addr, ec, room)
    \/ \E rss \in RSS_SAMPLES, vm \in VM_SAMPLES : sample_memory_stats(pid, TRUE, rss, vm)
    \/ \E addr \in ADDRS : ClosingStep(pid, addr)

\* a handler of the flow monitor that keeps the record of sk's flow runs for sk
FlowHandlerFor(sk) ==
    \/ \E size \in SEND_SIZES, pid \in NET_PIDS, ts \in Clock, room \in BOOLEAN :
          tcp_sendmsg(sk, size, pid, ts, room)
    \/ \E copied \in COPIED, pid \in NET_PIDS, ts \in Clock, room \in BOOLEAN :
          tcp_cleanup_rbuf(sk, copied, pid, ts, room)

\* a handler of the cpu profiler that keeps the record of one task runs for pid
TaskHandlerFor(pid) ==
    \/ \E cpu \in CPU_IDS, ts \in Clock, room \in BOOLEAN : sample_cpu_perf(pid, cpu, ts, room)
    \/ \E cpu \in CPU_IDS, ts \in Clock, room \in BOOLEAN : finish_task_switch(pid, cpu, ts, room)

\* a scheduler switch with pid as one task and other as the other one
SwitchFor(pid, other) ==
    \E st \in TASK_STATES, cpu \in CPU_IDS, ts \in Clock :
        \/ trace_sched_switch(pid, other, st, cpu, ts)
        \/ trace_sched_switch(other, pid, st, cpu, ts)

\* handlers for one key at a full table that lacks the key leave the table as it
\* is (stated by contraposition: a step that changes the table is none of them)
SingleKeyRejected ==
    /\ process_memory_map' # process_memory_map =>
          \A pid \in PIDS \ {0} :
              ~(FullWithout(process_memory_map, pid) /\ MemHandlerFor(pid))
    /\ flow_map' # flow_map =>
          \A sk \in SOCKS : ~(FullWithout(flow_map, FlowKeyOf(sk)) /\ FlowHandlerFor(sk))
    /\ process_map' # process_map =>
          \A pid \in PIDS \ {0} : ~(FullWithout(process_map, pid) /\ TaskHandlerFor(pid))

\* C9 as stated: each aggregation table holds at most max_entries keys, and a
\* handler invoked for a key that a full table lacks creates no record for it and
\* leaves the record of every existing key unchanged
C9_CapacityRejects_AnyHandler ==
    /\ []WithinCapacity
    /\ [][/\ SingleKeyRejected
          /\ process_map' # process_map =>
                \A pid \in PIDS \ {0}, other \in PIDS :
                    ~(FullWithout(process_map, pid) /\ SwitchFor(pid, other))]_vars

\* C9 with the scheduler switch set apart: each aggregation table holds at most
\* max_entries keys; a handler invoked for a key that a full table lacks creates
\* no record for it and leaves the record of every existing key unchanged, except
\* that a scheduler switch still updates the record of its other task
C9_CapacityRejects ==
    /\ []WithinCapacity
    /\ [][/\ SingleKeyRejected
          /\ \A pid \in PIDS \ {0}, other \in PIDS :
                FullWithout(process_map, pid) /\ SwitchFor(pid, other) =>
                    /\ DOMAIN process_map' = DOMAIN process_map
                    /\ \A k \in DOMAIN process_map \ {other} :
                          process_map'[k] = process_map[k]]_vars

\* a page allocation of a process that a full process table lacks has just run:
\* its event is out and it has no record
C9_Witness ==
    \E pid \in PIDS \ {0}, order \in ORDERS :
        /\ FullWithout(process_memory_map, pid)
        /\ events = <<MemoryEvent(pid, 0, PagesToBytes(order), ALLOC_PAGE, 0)>>

\* everything the three BPF objects keep between invocations
ProgramState ==
    <<process_memory_map, allocation_map, system_memory_map, flow_map, process_map, cpu_map>>

\* a handler loses its event to a ring buffer without room
EventDropped ==
    \/ \E pid \in PIDS \ {0}, addr \in FAULT_ADDRS : trace_brk(pid, addr, FALSE)
    \/ \E pid \in PIDS : trace_oom_victim(pid, FALSE)
    \/ \E sk \in SOCKS, pid \in NET_PIDS : trace_tcp_retransmit(sk, pid, FALSE)
    \/ \E pid \in PIDS, cpu \in CPU_IDS : trace_sched_wakeup(pid, cpu, FALSE)

\* a handler loses its update to a full table
UpdateRejected ==
    \E pid \in PIDS \ {0}, order \in ORDERS :
        FullWithout(process_memory_map, pid) /\ free_pages(pid, order)

\* C10: every event dropped for want of room in the ring and every update
\* rejected by a full table adds one to a drop counter, so the step changes
\* something the program keeps
C10_DropsCounted ==
    [][EventDropped \/ UpdateRejected => ProgramState' # ProgramState]_vars

\* the same handler on the same input with a full ring is enabled (it returns),
\* publishes nothing and leaves the tables as this step leaves them; one
\* conjunct per handler that calls a send function (the others never reserve),
\* over the inputs the handler is run on
MemNoRoomSame ==
    /\ \A pid \in USER_PIDS, size \in SIZES :
          trace_malloc(pid, size, TRUE) =>
              \E c \in {ProgramState'} :
                  ENABLED (trace_malloc(pid, size, FALSE)
                           /\ ProgramState' = c /\ events' = <<>>)
    /\ \A pid \in USER_PIDS, addr \in ADDRS :
          trace_free(pid, addr, TRUE) =>
              \E c \in {ProgramState'} :
                  ENABLED (trace_free(pid, addr, FALSE)
                           /\ ProgramState' = c /\ events' = <<>>)
    /\ \A pid \in EVENT_PIDS, size \in SIZES :
          trace_mmap_enter(pid, size, TRUE) =>
              \E c \in {ProgramState'} :
                  ENABLED (trace_mmap_enter(pid, size, FALSE)
                           /\ ProgramState' = c /\ events' = <<>>)
    /\ \A pid \in USER_PIDS, addr \in ADDRS, size \in SIZES :
          trace_munmap(pid, addr, size, TRUE) =>
              \E c \in {ProgramState'} :
                  ENABLED (trace_munmap(pid, addr, size, FALSE)
                           /\ ProgramState' = c /\ events' = <<>>)
    /\ \A pid \in EVENT_PIDS, addr \in FAULT_ADDRS :
          trace_brk(pid, addr, TRUE) =>
              \E c \in {ProgramState'} :
                  ENABLED (trace_brk(pid, addr, FALSE)
                           /\ ProgramState' = c /\ events' = <<>>)
    /\ \A pid \in FAULT_PIDS, addr \in FAULT_ADDRS, ec \in ERROR_CODES :
          trace_page_fault(pid, addr, ec, TRUE) =>
              \E c \in {ProgramState'} :
                  ENABLED (trace_page_fault(pid, addr, ec, FALSE)
                           /\ ProgramState' = c /\ events' = <<>>)
    /\ \A pid \in EVENT_PIDS :
          trace_oom_victim(pid, TRUE) =>
              \E c \in {ProgramState'} :
                  ENABLED (trace_oom_victim(pid, FALSE)
                           /\ ProgramState' = c /\ events' = <<>>)
    /\ \A pid \in PIDS, order \in ORDERS :
          alloc_pages(pid, order, TRUE) =>
              \E c \in {ProgramState'} :
                  ENABLED (alloc_pages(pid, order, FALSE)
                           /\ ProgramState' = c /\ events' = <<>>)

TcpNoRoomSame ==
    /\ \A sk \in STATE_SOCKS, family \in FAMILIES, old \in TCP_STATES, new \in TCP_STATES,
          pid \in NET_PIDS :
          trace_tcp_state_change(sk, family, old, new, pid, TRUE) =>
              \E c \in {ProgramState'} :
                  ENABLED (trace_tcp_state_change(sk, family, old, new, pid, FALSE)
                           /\ ProgramState' = c /\ events' = <<>>)
    /\ \A sk \in SOCKS, nxt \in SEQ_NUMBERS, una \in SEQ_NUMBERS, srtt \in RTTS,
          pid \in NET_PIDS :
          trace_tcp_probe(sk, nxt, una, srtt, pid, TRUE) =>
              \E c \in {ProgramState'} :
                  ENABLED (trace_tcp_probe(sk, nxt, una, srtt, pid, FALSE)
                           /\ ProgramState' = c /\ events' = <<>>)
    /\ \A sk \in SOCKS, pid \in NET_PIDS :
          trace_tcp_retransmit(sk, pid, TRUE) =>
              \E c \in {ProgramState'} :
                  ENABLED (trace_tcp_retransmit(sk, pid, FALSE)
                           /\ ProgramState' = c /\ events' = <<>>)
    /\ \A sk \in SOCKS, size \in SEND_SIZES, pid \in NET_PIDS, ts \in Clock :
          tcp_sendmsg(sk, size, pid, ts, TRUE) =>
              \E c \in {ProgramState'} :
                  ENABLED (tcp_sendmsg(sk, size, pid, ts, FALSE)
                           /\ ProgramState' = c /\ events' = <<>>)
    /\ \A sk \in SOCKS, copied \in COPIED, pid \in NET_PIDS, ts \in Clock :
          tcp_cleanup_rbuf(sk, copied, pid, ts, TRUE) =>
              \E c \in {ProgramState'} :
                  ENABLED (tcp_cleanup_rbuf(sk, copied, pid, ts, FALSE)
                           /\ ProgramState' = c /\ events' = <<>>)

CpuNoRoomSame ==
    /\ \A pid \in EVENT_PIDS, cpu \in IRQ_CPUS :
          trace_sched_wakeup(pid, cpu, TRUE) =>
              \E c \in {ProgramState'} :
                  ENABLED (trace_sched_wakeup(pid, cpu, FALSE)
                           /\ ProgramState' = c /\ events' = <<>>)
    /\ \A pid \in EVENT_PIDS, cpu \in IRQ_CPUS, ts \in Clock :
          sample_cpu_perf(pid, cpu, ts, TRUE) =>
              \E c \in {ProgramState'} :
                  ENABLED (sample_cpu_perf(pid, cpu, ts, FALSE)
                           /\ ProgramState' = c /\ events' = <<>>)
    /\ \A pid \in EVENT_PIDS, cpu \in IRQ_CPUS, ts \in Clock :
          finish_task_switch(pid, cpu, ts, TRUE) =>
              \E c \in {ProgramState'} :
                  ENABLED (finish_task_switch(pid, cpu, ts, FALSE)
                           /\ ProgramState' = c /\ events' = <<>>)

\* C11: for every handler and every input, the run with a full ring buffer
\* returns and leaves the aggregation and correlation tables exactly as the run
\* with room leaves them; it only publishes no event
C11_NoRoomSameTables ==
    [][/\ loaded = "memory_tracker" => MemNoRoomSame
       /\ loaded = "tcp_flow" => TcpNoRoomSame
       /\ loaded = "cpu_profiler" => CpuNoRoomSame]_vars

\* a send or a receive has run first, with a full ring: its flow is in the table
\* and no event is out
C11_Witness ==
    /\ loaded = "tcp_flow"
    /\ steps = 1
    /\ events = <<>>
    /\ flow_map # EmptyMap

\* the switch counters of pid in the process table; 0 without a record
InvoluntaryOf(map, pid) == IF Lookup(map, pid) THEN map[pid].involuntary_switches ELSE 0
VoluntaryOf(map, pid) == IF Lookup(map, pid) THEN map[pid].voluntary_switches ELSE 0

\* C12: every scheduler switch whose outgoing task has pid > 0, with or without
\* a record of it, adds one to exactly one of the task's switch counters:
\* involuntary_switches if its prior state was runnable, voluntary_switches
\* otherwise
C12_SwitchCounted ==
    [][\A prev \in PIDS \ {0}, next \in PIDS, st \in TASK_STATES, cpu \in CPU_IDS,
          ts \in Clock :
          prev # next /\ Creatable(process_map, prev)
              /\ trace_sched_switch(prev, next, st, cpu, ts) =>
              /\ InvoluntaryOf(process_map', prev) =
                     InvoluntaryOf(process_map, prev) + (IF st = TASK_RUNNING THEN 1 ELSE 0)
              /\ VoluntaryOf(process_map', prev) =
                     VoluntaryOf(process_map, prev) + (IF st = TASK_RUNNING THEN 0 ELSE 1)]_vars

\* the kinds of the events in out
EventTypes(out) == {out[i].event_type : i \in 1 .. Len(out)}

\* the kinds of events the transition (old, new) of an IPv4 socket is to emit
ExpectedKinds(old, new) ==
    (IF old = TCP_SYN_SENT /\ new = TCP_ESTABLISHED THEN {EV_CONNECT} ELSE {})
    \cup (IF old = TCP_SYN_RECV /\ new = TCP_ESTABLISHED THEN {EV_ACCEPT} ELSE {})
    \cup (IF new = TCP_CLOSE THEN {EV_CLOSE} ELSE {})

\* the events of the step are one event of each kind expected of the transition
\* (old, new), each for the socket sk and the process pid, and no other
ReportsExactly(sk, old, new, pid) ==
    /\ EventTypes(events') = ExpectedKinds(old, new)
    /\ Len(events') = Cardinality(ExpectedKinds(old, new))
    /\ \A i \in 1 .. Len(events') :
          events'[i] = TcpEvent(events'[i].event_type, sk, 0, 0, pid)

\* C13: with room in the ring, an IPv4 transition (old, new) emits exactly a
\* connect event iff old = SYN_SENT and new = ESTABLISHED, an accept event iff
\* old = SYN_RECV and new = ESTABLISHED, a close event iff new = CLOSE, each once
\* and for the socket of the transition; a non-IPv4 transition emits nothing
C13_StateChangeEvents ==
    [][loaded = "tcp_flow" /\ flow_map' = flow_map =>
       \A sk \in STATE_SOCKS, old \in TCP_STATES, new \in TCP_STATES, pid \in NET_PIDS :
          /\ ~ReportsExactly(sk, old, new, pid) =>
                ~trace_tcp_state_change(sk, AF_INET, old, new, pid, TRUE)
          /\ events' # <<>> =>
                \A family \in FAMILIES \ {AF_INET}, room \in BOOLEAN :
                    ~trace_tcp_state_change(sk, family, old, new, pid, room)]_vars

\* a transition into CLOSE has just been reported
C13_Witness ==
    \E sk \in SOCKS, pid \in NET_PIDS : events = <<TcpEvent(EV_CLOSE, sk, 0, 0, pid)>>

\* C14: a connect/establish transition of an IPv4 socket leaves a FlowStats
\* record for the socket's 4-tuple in the flow table (room for it provided), so
\* that two transitions on distinct tuples give two records; and a send on one
\* tuple leaves the record of every other tuple as it was
C14_RecordPerEstablishedFlow ==
    [][\A sk \in SOCKS, pid \in NET_PIDS :
          /\ \A old \in {TCP_SYN_SENT, TCP_SYN_RECV}, room \in BOOLEAN :
                Creatable(flow_map, FlowKeyOf(sk))
                    /\ trace_tcp_state_change(sk, AF_INET, old, TCP_ESTABLISHED, pid, room) =>
                    Lookup(flow_map', FlowKeyOf(sk))
          /\ \A size \in SEND_SIZES, ts \in Clock, room \in BOOLEAN :
                tcp_sendmsg(sk, size, pid, ts, room) =>
                    \A other \in DOMAIN flow_map \ {FlowKeyOf(sk)} :
                        Lookup(flow_map', other) /\ flow_map'[other] = flow_map[other]]_vars

\* the record of pid, or the zero record when there is none
MemOf(map, pid) == IF Lookup(map, pid) THEN map[pid] ELSE ZeroMem

\* the record of pid after the step counts one allocation of size bytes
CountedAsAllocation(pid, size) ==
    LET old == MemOf(process_memory_map, pid)
        new == MemOf(process_memory_map', pid)
    IN  /\ new.allocation_count = old.allocation_count + 1
        /\ new.total_allocated = old.total_allocated + size
        /\ new.current_usage = old.current_usage + size
        /\ new.peak_usage = Max(old.peak_usage, new.current_usage)

\* C15: every allocation-class event of a process pid # 0 whose record exists or
\* can be created (malloc, mmap, brk, user page fault, page allocation) adds one
\* to the allocation_count of pid, adds the size of the event to total_allocated
\* and current_usage, and raises peak_usage to current_usage when exceeded
C15_AllocationClassCounted ==
    [][\A pid \in PIDS \ {0}, room \in BOOLEAN :
          Creatable(process_memory_map, pid) =>
              /\ \A size \in SIZES \ {0} :
                    /\ pid \in DOMAIN user.inMalloc /\ trace_malloc(pid, size, room) =>
                          CountedAsAllocation(pid, size)
                    /\ trace_mmap_enter(pid, size, room) => CountedAsAllocation(pid, size)
              /\ \A addr \in ADDRS :
                    trace_brk(pid, addr, room) => CountedAsAllocation(pid, 0)
              /\ \A address \in FAULT_ADDRS, error_code \in ERROR_CODES :
                    trace_page_fault(pid, address, error_code, room) =>
                        CountedAsAllocation(pid, PAGE_SIZE)
              /\ \A order \in ORDERS :
                    alloc_pages(pid, order, room) =>
                        CountedAsAllocation(pid, PagesToBytes(order))]_vars

\* C16: the retransmit handler leaves every record of the flow table as it was
\* (no record added or removed, no byte or packet counter changed), and what it
\* emits is one event of kind retransmit (6), not send or receive, with byte
\* count 0, or nothing when the ring has no room
C16_RetransmitSeparate ==
    [][\A sk \in SOCKS, pid \in NET_PIDS, room \in BOOLEAN :
          trace_tcp_retransmit(sk, pid, room) =>
              /\ flow_map' = flow_map
              /\ Len(events') = (IF room THEN 1 ELSE 0)
              /\ \A i \in 1 .. Len(events') :
                    /\ events'[i].event_type = 6
                    /\ events'[i].event_type \notin {EV_SEND, EV_RECV}
                    /\ events'[i].bytes = 0]_vars

\* a retransmission has just been reported while the flow table holds a record
\* with bytes sent
C16_Witness ==
    /\ \E sk \in SOCKS, pid \in NET_PIDS : events = <<TcpEvent(EV_RETRANSMIT, sk, 0, 0, pid)>>
    /\ \E k \in DOMAIN flow_map : flow_map[k].bytes_tx > 0

\* C17: a tcp_probe event carrying the smoothed round-trip time srtt on a flow
\* that has a record adds one to the record's rtt_samples and srtt to its
\* rtt_total
C17_RttSampleAccumulated ==
    [][\A sk \in SOCKS, nxt \in SEQ_NUMBERS, una \in SEQ_NUMBERS, srtt \in RTTS,
          pid \in NET_PIDS, room \in BOOLEAN :
          nxt >= una /\ Lookup(flow_map, FlowKeyOf(sk))
              /\ trace_tcp_probe(sk, nxt, una, srtt, pid, room) =>
              /\ Lookup(flow_map', FlowKeyOf(sk))
              /\ flow_map'[FlowKeyOf(sk)].rtt_samples = flow_map[FlowKeyOf(sk)].rtt_samples + 1
              /\ flow_map'[FlowKeyOf(sk)].rtt_total = flow_map[FlowKeyOf(sk)].rtt_total + srtt]_vars

\* C18: a sampler invoked with no user process is a no-op: sample_memory_stats
\* with pid 0 or with a null mm, and sample_cpu_perf with pid 0, create no
\* record, change no entry of any table, emit no event and return 0
C18_SamplersNoOp ==
    [][/\ \A pid \in PIDS, mm \in BOOLEAN, rss \in RSS_SAMPLES, vm \in VM_SAMPLES :
             (pid = 0 \/ ~mm) /\ sample_memory_stats(pid, mm, rss, vm) =>
                 /\ ProgramState' = ProgramState
                 /\ events' = <<>>
                 /\ sampler_return(pid, mm) = 0
       /\ \A cpu \in CPU_IDS, ts \in Clock, room \in BOOLEAN :
             sample_cpu_perf(0, cpu, ts, room) =>
                 /\ ProgramState' = ProgramState
                 /\ events' = <<>>
                 /\ sampler_return(0, TRUE) = 0]_vars

\* the CPU profiler has run for one invocation that read a later clock, and no
\* table has an entry and no event is out: the sampler ran without a user process
C18_Witness ==
    /\ loaded = "cpu_profiler" /\ steps = 1 /\ now = 1
    /\ process_map = EmptyMap /\ events = <<>>
    /\ \A c \in CPU_IDS, k \in CPU_IDS : cpu_map[c][k] = ZeroCpu

\* the additive counters of the three kinds of record and of the per-CPU slot
MEM_COUNTERS ==
    {"total_allocated", "total_freed", "allocation_count", "free_count",
     "page_faults", "major_faults"}
FLOW_COUNTERS == {"bytes_tx", "bytes_rx", "packets_tx", "packets_rx"}
TASK_COUNTERS ==
    {"total_runtime", "schedule_count", "voluntary_switches", "involuntary_switches"}

\* every record of old is a record of new, none of its counters in fields lower
CountersKept(old, new, fields) ==
    \A k \in DOMAIN old :
        /\ k \in DOMAIN new
        /\ \A f \in fields : new[k][f] >= old[k][f]

\* C19: from one state to the next of a run in which every handler invocation
\* runs to completion, every record stays, and none of its additive counters
\* (memory: total_allocated, total_freed, allocation_count, free_count,
\* page_faults, major_faults; flow: bytes and packets of both directions; task:
\* total_runtime, schedule_count, voluntary and involuntary switches; per-CPU:
\* context_switches) is lower than before; current_usage is not constrained
C19_CountersMonotonic ==
    [][/\ CountersKept(process_memory_map, process_memory_map', MEM_COUNTERS)
       /\ CountersKept(flow_map, flow_map', FLOW_COUNTERS)
       /\ CountersKept(process_map, process_map', TASK_COUNTERS)
       /\ \A c \in CPU_IDS :
             CountersKept(cpu_map[c], cpu_map'[c], {"context_switches"})]_vars

\* a process whose record has counted a free that lowered current_usage below
\* its peak, while its allocation counters stand
C19_Witness ==
    \E pid \in DOMAIN process_memory_map :
        /\ process_memory_map[pid].free_count > 0
        /\ process_memory_map[pid].total_allocated > 0
        /\ process_memory_map[pid].current_usage < process_memory_map[pid].peak_usage

\* new differs from the record old in no field outside fields
OnlyChanged(old, new, fields) ==
    \A f \in (DOMAIN old) \ fields : new[f] = old[f]

\* the step of a send of size bytes on the existing flow of sk changes only the
\* outbound counters and last_seen of its record
SendFrame(sk, size, ts) ==
    LET old == flow_map[FlowKeyOf(sk)]
        new == flow_map'[FlowKeyOf(sk)]
    IN  /\ OnlyChanged(old, new, {"bytes_tx", "packets_tx", "last_seen"})
        /\ new.bytes_tx = old.bytes_tx + size
        /\ new.packets_tx = old.packets_tx + 1
        /\ new.last_seen = ts /\ ts >= old.last_seen

\* the step of a receive of copied bytes on the existing flow of sk changes only
\* the inbound counters and last_seen of its record
RecvFrame(sk, copied, ts) ==
    LET old == flow_map[FlowKeyOf(sk)]
        new == flow_map'[FlowKeyOf(sk)]
    IN  /\ OnlyChanged(old, new, {"bytes_rx", "packets_rx", "last_seen"})
        /\ new.bytes_rx = old.bytes_rx + copied
        /\ new.packets_rx = old.packets_rx + 1
        /\ new.last_seen = ts /\ ts >= old.last_seen

C21_NoLostUpdate ==
    ~conc.rezeroed =>
        \A pid \in CONC_PIDS :
            Lookup(process_memory_map, pid) =>
                /\ process_memory_map[pid].allocation_count = conc.allocs[pid]
                /\ process_memory_map[pid].total_allocated = conc.alloc_bytes[pid]

\* C22: a user page fault of a process pid # 0 whose record exists or can be
\* created adds exactly one to page_faults, and exactly one to major_faults if
\* bit 0x4 of error_code is set and nothing otherwise; and major_faults <=
\* page_faults for every record in every state of a run of whole handlers
C22_FaultsCounted ==
    /\ [](\A pid \in DOMAIN process_memory_map :
             process_memory_map[pid].major_faults <= process_memory_map[pid].page_faults)
    /\ [][\A pid \in PIDS \ {0}, address \in FAULT_ADDRS, error_code \in ERROR_CODES,
             room \in BOOLEAN :
             Creatable(process_memory_map, pid)
                 /\ trace_page_fault(pid, address, error_code, room) =>
                 /\ MemOf(process_memory_map', pid).page_faults =
                        MemOf(process_memory_map, pid).page_faults + 1
                 /\ MemOf(process_memory_map', pid).major_faults =
                        MemOf(process_memory_map, pid).major_faults
                            + (IF error_code % 8 >= 4 THEN 1 ELSE 0)]_vars

\* a process has taken a fault with the flag and one without it
C22_Witness ==
    \E pid \in DOMAIN process_memory_map :
        /\ process_memory_map[pid].page_faults = 2
        /\ process_memory_map[pid].major_faults = 1

\* the step counts one deallocation of size bytes for pid
CountedAsFree(pid, size) ==
    /\ MemOf(process_memory_map', pid).total_freed =
           MemOf(process_memory_map, pid).total_freed + size
    /\ MemOf(process_memory_map', pid).free_count =
           MemOf(process_memory_map, pid).free_count + 1

\* C23: in every state of a run of whole memory handlers every record has
\* current_usage <= total_allocated and peak_usage <= total_allocated; and every
\* deallocation that reaches update_process_memory (a page free, or a free or
\* munmap that found its correlation entry) of a process whose record exists or
\* can be created adds its size to total_freed and one to free_count, whether or
\* not current_usage is lowered, so total_freed may exceed total_allocated
C23_UsageBoundedByAllocated ==
    /\ [](\A pid \in DOMAIN process_memory_map :
             /\ process_memory_map[pid].current_usage <= process_memory_map[pid].total_allocated
             /\ process_memory_map[pid].peak_usage <= process_memory_map[pid].total_allocated)
    /\ [][\A pid \in PIDS \ {0} :
             Creatable(process_memory_map, pid) =>
                 /\ \A order \in ORDERS :
                       free_pages(pid, order) => CountedAsFree(pid, PagesToBytes(order))
                 /\ \A addr \in (DOMAIN allocation_map) \ {0} :
                       /\ \A size \in SIZES, room \in BOOLEAN :
                             trace_munmap(pid, addr, size, room) => CountedAsFree(pid, size)
                       /\ \A room \in BOOLEAN :
                             trace_free(pid, addr, room) =>
                                 CountedAsFree(pid, allocation_map[addr].size)]_vars

\* a record whose frees exceed its allocations: a page free counted in full
\* although current_usage could not be lowered by it
C23_Witness ==
    \E pid \in DOMAIN process_memory_map :
        /\ process_memory_map[pid].total_allocated > 0
        /\ process_memory_map[pid].total_freed > process_memory_map[pid].total_allocated
        /\ process_memory_map[pid].current_usage > 0

\* the step leaves the record of every process but q as it was, none added or removed
OnlyRecordOf(q) ==
    \A p \in PIDS \ {q} :
        /\ Lookup(process_memory_map', p) = Lookup(process_memory_map, p)
        /\ Lookup(process_memory_map, p) => process_memory_map'[p] = process_memory_map[p]

\* C24: a free or munmap by process q that consumes the correlation entry
\* another process put for the address charges the deallocation to q: the entry
\* is gone, the record of q (if it exists or can be created) counts the free, and
\* the record of the owner stored in the entry, like every other record, is as
\* it was
C24_ChargedToCaller ==
    [][\A q \in PIDS \ {0}, addr \in (DOMAIN allocation_map) \ {0} :
          allocation_map[addr].pid # q =>
              /\ \A size \in SIZES, room \in BOOLEAN :
                    trace_munmap(q, addr, size, room) =>
                        /\ ~Lookup(allocation_map', addr)
                        /\ OnlyRecordOf(q)
                        /\ Creatable(process_memory_map, q) => CountedAsFree(q, size)
              /\ \A room \in BOOLEAN :
                    trace_free(q, addr, room) =>
                        /\ ~Lookup(allocation_map', addr)
                        /\ OnlyRecordOf(q)
                        /\ Creatable(process_memory_map, q) =>
                               CountedAsFree(q, allocation_map[addr].size)]_vars

\* a munmap of 128 bytes has just consumed the one entry there was and been
\* charged to its caller, the only process with a record
C24_Witness ==
    \E q \in PIDS \ {0}, addr \in ADDRS \ {0} :
        /\ events = <<MemoryEvent(q, addr, 128, ALLOC_MUNMAP, 0)>>
        /\ allocation_map = EmptyMap
        /\ DOMAIN process_memory_map = {q}
        /\ process_memory_map[q].free_count = 1
        /\ process_memory_map[q].total_freed = 128

====
